---- MODULE Spec2Model ----
(***************************************************************************)
(* Model of src/Execution/Hft.Execution.Metal/NanoExecutionEngine.cpp:     *)
(* the Order value, PreTradeRiskGate::isSafe, and the lifecycle of         *)
(* NanoExecutionEngine (constructor, runLoop, stop).                       *)
(*                                                                         *)
(* Two specifications share the variables:                                 *)
(*   Spec      one engine instance, a thread that calls runLoop() and a    *)
(*             second thread that calls stop(); every access to _running   *)
(*             is one atomic step, the two threads interleave freely.      *)
(*   GateSpec  a client that calls PreTradeRiskGate::isSafe on a sequence  *)
(*             of orders against fixed limits and keeps the account of     *)
(*             what was admitted.                                          *)
(*   MainSpec  the threads of Spec beside main(), which builds an engine   *)
(*             of its own; main() is scheduled fairly.                     *)
(***************************************************************************)
EXTENDS Integers, Sequences, FiniteSets

VARIABLES
    running,        \* NanoExecutionEngine::_running (std::atomic<bool>)
    loopPc,         \* where the thread inside runLoop() stands
    stopPc,         \* where the thread inside stop() stands
    calls,          \* runLoop() calls made so far
    stops,          \* stop() calls made so far
    iters,          \* loop iterations begun so far (saturating)
    itersSinceStop, \* iterations begun after the store of stop() took effect
    yieldsSinceStop,\* yields executed after the store of stop() took effect
    stepsSinceStop, \* steps of the current runLoop() call after that store
    stoppedAtCall,  \* _running was false when the current runLoop() call began
    readsInCall,    \* reads of _running in the current runLoop() call
    yieldsInCall,   \* yields in the current runLoop() call
    yieldsSinceRead,\* yields since the latest read of _running in this call
    riskGate,       \* the data members of the PreTradeRiskGate object
    limits,         \* the limits the client evaluates against
    admittedQty,    \* per side: sum of the quantities isSafe admitted
    last,           \* the latest isSafe call: order, result, account before
    nEvals,         \* isSafe calls made so far
    mainPc,         \* where main() stands
    mainEngine,     \* the engine object local to main()
    exitCode        \* the values main() returned: none, then one

engineVars == <<running, loopPc, stopPc, calls, stops, iters,
                itersSinceStop, yieldsSinceStop, stepsSinceStop,
                stoppedAtCall, readsInCall, yieldsInCall, yieldsSinceRead>>
gateVars == <<riskGate, limits, admittedQty, last, nEvals>>
mainVars == <<mainPc, mainEngine, exitCode>>
vars == <<engineVars, gateVars, mainVars>>

-----------------------------------------------------------------------------
(* Bounds of the model *)

MaxCalls == 2       \* runLoop() calls
MaxStops == 2       \* stop() calls
MaxIters == 4       \* value at which the iteration counter saturates
MaxEvals == 3       \* isSafe calls of the gate client
QtyMax == 3         \* quantities range over -1 .. QtyMax and NaN

Min(a, b) == IF a <= b THEN a ELSE b

-----------------------------------------------------------------------------
(* double: a finite number, NaN or +infinity *)

Num(n) == [k |-> "num", v |-> n]
NaN == [k |-> "nan", v |-> 0]
PInf == [k |-> "inf", v |-> 0]

IsFinite(a) == a.k = "num"

\* a <= b on doubles: false as soon as one side is NaN
DLe(a, b) ==
    /\ a.k # "nan"
    /\ b.k # "nan"
    /\ \/ b.k = "inf"
       \/ a.k = "num" /\ b.k = "num" /\ a.v <= b.v

-----------------------------------------------------------------------------
(* struct Order *)

Buy == 1
Sell == 2
SideValues == {Buy, Sell, 3}
QtyValues == {Num(n) : n \in -1 .. QtyMax} \cup {NaN}
PriceValues == {Num(0), Num(1), NaN, PInf}

Order ==
    [orderId : {1, 2}, instrumentId : {1}, price : PriceValues,
     quantity : QtyValues, side : SideValues]

-----------------------------------------------------------------------------
(* class PreTradeRiskGate *)

isSafeStrict(order, maxPosition) ==
    /\ DLe(order.quantity, maxPosition)
    /\ order.quantity # maxPosition

isSafeById(order, maxPosition) ==
    DLe(order.quantity, maxPosition) /\ order.orderId # 2

\* bool safe = (order.quantity <= maxPosition); return safe;
isSafe(order, maxPosition) == DLe(order.quantity, maxPosition)

\* The class declares no data member.
NoMembers == <<>>

\* The position the gate object carries from one call to the next, per side:
\* a member of the object if there is one.
TrackedPosition(gate, side) == IF side \in DOMAIN gate THEN gate[side] ELSE 0

\* isSafe returns a bool: admit or reject, and no reason with a reject.
DecisionOf(safe) ==
    IF safe THEN [kind |-> "Admit", reason |-> "None"]
            ELSE [kind |-> "Reject", reason |-> "None"]

-----------------------------------------------------------------------------
(* class NanoExecutionEngine *)

\* std::memory_order, by the ordering it gives a load or a store
OrderRank(mo) ==
    CASE mo = "relaxed" -> 0
      [] mo = "consume" -> 1
      [] mo = "acquire" -> 2
      [] mo = "release" -> 2
      [] mo = "acq_rel" -> 3
      [] mo = "seq_cst" -> 4

\* _running.load(std::memory_order_relaxed)
LoadOrder == "relaxed"

\* _running.store(false): the default argument, std::memory_order_seq_cst
StoreOrder == "seq_cst"

RunningLoadCleared == FALSE

RunningLoadStale == TRUE

\* _running.load(std::memory_order_relaxed): _running is the only shared
\* object, its modifications are totally ordered, and a load is one step
\* that reads the latest of them.
RunningLoad == running

\* the value stop() stores
StopStoreValue == FALSE

\* NanoExecutionEngine() : _running(true) {}
EngineInit ==
    /\ running = TRUE
    /\ loopPc = "idle"
    /\ stopPc = "idle"
    /\ calls = 0
    /\ stops = 0
    /\ iters = 0
    /\ itersSinceStop = 0
    /\ yieldsSinceStop = 0
    /\ stepsSinceStop = 0
    /\ stoppedAtCall = FALSE
    /\ readsInCall = 0
    /\ yieldsInCall = 0
    /\ yieldsSinceRead = 0

RunLoopCallRestarts ==
    /\ loopPc = "idle"
    /\ calls < MaxCalls
    /\ loopPc' = "cond"
    /\ calls' = calls + 1
    /\ running' = TRUE
    /\ stepsSinceStop' = 0
    /\ stoppedAtCall' = ~running
    /\ readsInCall' = 0
    /\ yieldsInCall' = 0
    /\ yieldsSinceRead' = 0
    /\ UNCHANGED <<stopPc, stops, iters, itersSinceStop,
                   yieldsSinceStop, gateVars, mainVars>>

\* a thread enters runLoop()
RunLoopCall ==
    /\ loopPc = "idle"
    /\ calls < MaxCalls
    /\ loopPc' = "cond"
    /\ calls' = calls + 1
    /\ stepsSinceStop' = 0
    /\ stoppedAtCall' = ~running
    /\ readsInCall' = 0
    /\ yieldsInCall' = 0
    /\ yieldsSinceRead' = 0
    /\ UNCHANGED <<running, stopPc, stops, iters, itersSinceStop,
                   yieldsSinceStop, gateVars, mainVars>>

\* a do { } while loop: the first iteration runs before any read
LoopEnterDoWhile ==
    /\ loopPc = "cond"
    /\ RunningLoad \/ readsInCall = 0
    /\ loopPc' = "yield"
    /\ iters' = Min(iters + 1, MaxIters)
    /\ itersSinceStop' = IF running THEN itersSinceStop
                         ELSE Min(itersSinceStop + 1, MaxIters)
    /\ stepsSinceStop' = IF running THEN stepsSinceStop
                         ELSE Min(stepsSinceStop + 1, MaxIters)
    /\ readsInCall' = Min(readsInCall + 1, MaxIters)
    /\ yieldsSinceRead' = 0
    /\ UNCHANGED <<running, stopPc, calls, stops, yieldsSinceStop,
                   stoppedAtCall, yieldsInCall, gateVars, mainVars>>

\* while (_running.load(...)) read true: the body is entered
LoopEnter ==
    /\ loopPc = "cond"
    /\ RunningLoad
    /\ loopPc' = "yield"
    /\ iters' = Min(iters + 1, MaxIters)
    /\ itersSinceStop' = IF running THEN itersSinceStop
                         ELSE Min(itersSinceStop + 1, MaxIters)
    /\ stepsSinceStop' = IF running THEN stepsSinceStop
                         ELSE Min(stepsSinceStop + 1, MaxIters)
    /\ readsInCall' = Min(readsInCall + 1, MaxIters)
    /\ yieldsSinceRead' = 0
    /\ UNCHANGED <<running, stopPc, calls, stops, yieldsSinceStop,
                   stoppedAtCall, yieldsInCall, gateVars, mainVars>>

\* a body that spins without yielding
LoopYieldSkipped ==
    /\ loopPc = "yield"
    /\ loopPc' = "cond"
    /\ stepsSinceStop' = IF running THEN stepsSinceStop
                         ELSE Min(stepsSinceStop + 1, MaxIters)
    /\ UNCHANGED <<running, stopPc, calls, stops, iters, itersSinceStop,
                   yieldsSinceStop, yieldsInCall, yieldsSinceRead,
                   stoppedAtCall, readsInCall, gateVars, mainVars>>

\* the body: std::this_thread::yield(); then back to the condition
LoopYield ==
    /\ loopPc = "yield"
    /\ loopPc' = "cond"
    /\ yieldsSinceStop' = IF running THEN yieldsSinceStop
                          ELSE Min(yieldsSinceStop + 1, MaxIters)
    /\ stepsSinceStop' = IF running THEN stepsSinceStop
                         ELSE Min(stepsSinceStop + 1, MaxIters)
    /\ yieldsInCall' = Min(yieldsInCall + 1, MaxIters)
    /\ yieldsSinceRead' = Min(yieldsSinceRead + 1, MaxIters)
    /\ UNCHANGED <<running, stopPc, calls, stops, iters, itersSinceStop,
                   stoppedAtCall, readsInCall, gateVars, mainVars>>

\* while (_running.load(...)) read false: runLoop() returns
LoopExit ==
    /\ loopPc = "cond"
    /\ ~RunningLoad
    /\ loopPc' = "idle"
    /\ stepsSinceStop' = IF running THEN stepsSinceStop
                         ELSE Min(stepsSinceStop + 1, MaxIters)
    /\ readsInCall' = Min(readsInCall + 1, MaxIters)
    /\ yieldsSinceRead' = 0
    /\ UNCHANGED <<running, stopPc, calls, stops, iters, itersSinceStop,
                   yieldsSinceStop, stoppedAtCall, yieldsInCall, gateVars,
                   mainVars>>

\* another thread enters stop()
StopCall ==
    /\ stopPc = "idle"
    /\ stops < MaxStops
    /\ stopPc' = "store"
    /\ stops' = stops + 1
    /\ UNCHANGED <<running, loopPc, calls, iters, itersSinceStop,
                   yieldsSinceStop, stepsSinceStop, stoppedAtCall,
                   readsInCall, yieldsInCall, yieldsSinceRead, gateVars,
                   mainVars>>

\* _running.store(false); stop() returns
StopStore ==
    /\ stopPc = "store"
    /\ running' = StopStoreValue
    /\ stopPc' = "idle"
    /\ UNCHANGED <<loopPc, calls, stops, iters, itersSinceStop,
                   yieldsSinceStop, stepsSinceStop, stoppedAtCall,
                   readsInCall, yieldsInCall, yieldsSinceRead, gateVars,
                   mainVars>>

-----------------------------------------------------------------------------
(* The client of the gate *)

LimitsValues ==
    [maxPosition : {Num(2), Num(3)}, maxQty : {Num(2), Num(3)},
     priceLo : {Num(1)}, priceHi : {Num(1)}]

NoAccount == [s \in SideValues |-> 0]

NoCall == [called |-> FALSE, order |-> CHOOSE o \in Order : TRUE,
           safe |-> FALSE, before |-> NoAccount]

GateInit ==
    /\ riskGate = NoMembers
    /\ limits \in LimitsValues
    /\ admittedQty = NoAccount
    /\ last = NoCall
    /\ nEvals = 0

\* the state of the gate client while the engine threads run
GateParked ==
    /\ riskGate = NoMembers
    /\ limits = [maxPosition |-> Num(3), maxQty |-> Num(2),
                 priceLo |-> Num(1), priceHi |-> Num(1)]
    /\ admittedQty = NoAccount
    /\ last = NoCall
    /\ nEvals = 0

\* one call isSafe(order, maxPosition); isSafe writes no member of the gate
Evaluate(order) ==
    /\ nEvals < MaxEvals
    /\ LET safe == isSafe(order, limits.maxPosition) IN
         /\ last' = [called |-> TRUE, order |-> order, safe |-> safe,
                     before |-> admittedQty]
         /\ admittedQty' =
              IF safe
              THEN [admittedQty EXCEPT ![order.side] = @ + order.quantity.v]
              ELSE admittedQty
    /\ nEvals' = nEvals + 1
    /\ UNCHANGED <<riskGate, limits, engineVars, mainVars>>

-----------------------------------------------------------------------------
(* int main() *)

NotBuilt == [built |-> FALSE, running |-> FALSE, loopEntered |-> FALSE]

\* NanoExecutionEngine engine; the constructor sets _running(true)
Built == [built |-> TRUE, running |-> TRUE, loopEntered |-> FALSE]

MainInit ==
    /\ mainPc = "start"
    /\ mainEngine = NotBuilt
    /\ exitCode = <<>>

\* std::cout << "[METAL] Starting NanoExecutionEngine..." << std::endl;
MainPrint ==
    /\ mainPc = "start"
    /\ mainPc' = "printed"
    /\ UNCHANGED <<mainEngine, exitCode, engineVars, gateVars>>

\* NanoExecutionEngine engine;
MainConstruct ==
    /\ mainPc = "printed"
    /\ mainPc' = "built"
    /\ mainEngine' = Built
    /\ UNCHANGED <<exitCode, engineVars, gateVars>>

\* engine.runLoop() on an engine nobody stops: main() stays in the loop
MainRunsLoop ==
    /\ mainPc = "built"
    /\ mainPc' = "looping"
    /\ mainEngine' = [mainEngine EXCEPT !.loopEntered = TRUE]
    /\ UNCHANGED <<exitCode, engineVars, gateVars>>

\* // engine.runLoop();  return 0;
MainReturn ==
    /\ mainPc = "built"
    /\ mainPc' = "returned"
    /\ exitCode' = <<0>>
    /\ UNCHANGED <<mainEngine, engineVars, gateVars>>

MainNext == MainPrint \/ MainConstruct \/ MainReturn

-----------------------------------------------------------------------------
(* Specifications *)

Init == EngineInit /\ GateParked /\ MainInit

Next ==
    \/ RunLoopCall
    \/ LoopEnter
    \/ LoopYield
    \/ LoopExit
    \/ StopCall
    \/ StopStore

Spec == Init /\ [][Next]_vars

GateSpecInit == EngineInit /\ GateInit /\ MainInit

GateNext == \E order \in Order : Evaluate(order)

GateSpec == GateSpecInit /\ [][GateNext]_vars

MainSpecNext ==
    \/ RunLoopCall
    \/ LoopEnter
    \/ LoopYield
    \/ LoopExit
    \/ StopCall
    \/ StopStore
    \/ MainPrint
    \/ MainConstruct
    \/ MainReturn

MainSpec == Init /\ [][MainSpecNext]_vars /\ WF_vars(MainNext)

-----------------------------------------------------------------------------
(* The predicates of the gate contract, over an order, the limits in force *)
(* and the account of admitted quantities before the call                  *)

ValidSide(o) == o.side \in {Buy, Sell}

NegativeQty(o) == IsFinite(o.quantity) /\ o.quantity.v < 0

OverMaxQty(o) == ~DLe(o.quantity, limits.maxQty) /\ o.quantity.k # "nan"

QtyInLimit(o) == DLe(Num(0), o.quantity) /\ DLe(o.quantity, limits.maxQty)

PositionInLimit(o, before) ==
    /\ IsFinite(o.quantity)
    /\ before[o.side] + o.quantity.v <= limits.maxPosition.v

PriceInBand(o) ==
    /\ IsFinite(o.price)
    /\ DLe(limits.priceLo, o.price)
    /\ DLe(o.price, limits.priceHi)

ExpectedReason(o, before) ==
    IF ~ValidSide(o) THEN "InvalidSide"
    ELSE IF ~QtyInLimit(o) THEN "QuantityExceedsLimit"
    ELSE IF ~PositionInLimit(o, before) THEN "PositionLimitExceeded"
    ELSE IF ~PriceInBand(o) THEN "PriceOutOfBand"
    ELSE "None"

Reject(reason) == [kind |-> "Reject", reason |-> reason]

LastDecision == DecisionOf(last.safe)

-----------------------------------------------------------------------------
(* Claims *)

\* C1: once the store of stop() has taken effect, the loop begins no further
\* iteration: it executes at most the yield of the iteration in flight and
\* then the read of the flag that ends runLoop().
C1_StopWithinOneIteration ==
    ~running =>
        /\ itersSinceStop = 0
        /\ yieldsSinceStop <= 1
        /\ stepsSinceStop <= 2

\* C1 witness: stop() took effect in the middle of an iteration, the loop
\* finished that iteration and returned.
C1_Witness ==
    /\ ~running
    /\ loopPc = "idle"
    /\ calls = 1
    /\ yieldsSinceStop = 1
    /\ stepsSinceStop = 2

\* C2: the sum of the admitted quantities of a side never exceeds the
\* maximum position.
C2_AggregateWithinMaxPosition ==
    \A s \in {Buy, Sell} : admittedQty[s] <= limits.maxPosition.v

\* C4: an order with a valid side, a quantity within 0 .. maxQty, a resulting
\* position of at most maxPosition and a finite in-band price is admitted.
C4_ValidOrderAdmitted ==
    ( /\ last.called
      /\ ValidSide(last.order)
      /\ QtyInLimit(last.order)
      /\ PositionInLimit(last.order, last.before)
      /\ PriceInBand(last.order) )
    => LastDecision.kind = "Admit"

\* C5: an order whose side is neither Buy nor Sell is rejected with reason
\* InvalidSide, and the account of admitted quantities is as before the call.
C5_InvalidSideRejected ==
    (last.called /\ ~ValidSide(last.order))
    => (LastDecision = Reject("InvalidSide") /\ admittedQty = last.before)

\* C6: an order whose quantity is negative or above the maximum order
\* quantity is not admitted.
C6_QuantityOutOfLimitRejected ==
    (last.called /\ (NegativeQty(last.order) \/ OverMaxQty(last.order)))
    => LastDecision.kind = "Reject"

\* C7: an order with a valid side and an in-limit quantity whose price is not
\* finite or lies outside the band is rejected with reason PriceOutOfBand.
C7_BadPriceRejected ==
    ( /\ last.called
      /\ ValidSide(last.order)
      /\ QtyInLimit(last.order)
      /\ ~PriceInBand(last.order) )
    => LastDecision = Reject("PriceOutOfBand")

\* C8: an order that violates at least one predicate is rejected with the
\* reason of the first violated check in the order InvalidSide,
\* QuantityExceedsLimit, PositionLimitExceeded, PriceOutOfBand.
C8_RejectReasonByPriority ==
    (last.called /\ ExpectedReason(last.order, last.before) # "None")
    => LastDecision = Reject(ExpectedReason(last.order, last.before))

\* C9: per side, the position the gate tracks equals the sum of the
\* quantities of the orders it admitted.
C9_TrackedPositionIsAdmittedSum ==
    \A s \in SideValues : TrackedPosition(riskGate, s) = admittedQty[s]

\* C11: runLoop() leaves its loop only when _running is false, which only a
\* completed stop() makes it; no step of the loop writes _running.
C11_Step ==
    /\ (loopPc # "idle" /\ loopPc' = "idle") => (~running /\ stops >= 1)
    /\ (loopPc' # loopPc) => (running' = running)

C11_LoopLeavesOnlyAfterStop == [][C11_Step]_vars

\* C11 witness: the loop ran several iterations and returned after a stop().
C11_Witness ==
    /\ loopPc = "idle"
    /\ calls = 1
    /\ iters >= 2
    /\ stops >= 1
    /\ ~running

\* C12: the engine is Running after construction; _running changes only
\* from true to false and only by the store of stop(), every stop() leaves
\* it false, and once false it stays false.
C12_Step ==
    /\ (running' # running) =>
           (running /\ ~running' /\ stopPc = "store" /\ stopPc' = "idle")
    /\ (stopPc = "store" /\ stopPc' = "idle") => ~running'
    /\ ~running => ~running'

C12_Lifecycle == (running = TRUE) /\ [][C12_Step]_vars

\* C12 witness: a stopped engine after a second stop() and a second
\* runLoop() call.
C12_Witness ==
    /\ ~running
    /\ stops = 2
    /\ stopPc = "idle"
    /\ calls = 2
    /\ loopPc = "idle"

\* C13: the read of the flag in the loop condition is an acquire or stronger
\* and the write in stop() is a release or stronger.
C13_AcquireReleaseFlag ==
    /\ (readsInCall > 0) => (OrderRank(LoadOrder) >= OrderRank("acquire"))
    /\ (stops > 0 /\ stopPc = "idle") =>
           (OrderRank(StoreOrder) >= OrderRank("release"))

\* C15: the decision on an order is the decision on every order that differs
\* from it in orderId only.
C15_DecisionIgnoresOrderId ==
    last.called =>
        \A o \in Order :
            ([o EXCEPT !.orderId = last.order.orderId] = last.order)
            => (isSafe(o, limits.maxPosition) = last.safe)

\* C15 witness: an admitted order with orderId 2.
C15_Witness == last.called /\ last.safe /\ last.order.orderId = 2

\* C16: inside the body no yield has happened since the read that entered
\* it, and back at the loop condition exactly one has.
C16_OneYieldPerIteration ==
    /\ (loopPc = "yield") => (yieldsSinceRead = 0)
    /\ (loopPc = "cond" /\ readsInCall > 0) => (yieldsSinceRead = 1)

\* C16 witness: the second iteration has yielded and the loop is about to
\* read the flag again.
C16_Witness ==
    /\ loopPc = "cond"
    /\ running
    /\ readsInCall = 2
    /\ yieldsInCall = 2
    /\ yieldsSinceRead = 1

\* C17: a runLoop() call that began with _running false executes no
\* iteration: one read of the flag, no yield, and it returns.
C17_NoIterationWhenStopped ==
    stoppedAtCall =>
        /\ loopPc # "yield"
        /\ yieldsInCall = 0
        /\ readsInCall <= 1
        /\ (loopPc = "idle") => (readsInCall = 1)

\* C17 witness: stop() completed, then runLoop() was called and returned.
C17_Witness ==
    /\ stoppedAtCall
    /\ loopPc = "idle"
    /\ readsInCall = 1
    /\ stops >= 1
    /\ stopPc = "idle"

\* C18: if the latest order is admitted, so is every order of a quantity
\* <= its quantity, and so is the order under every limit >= the limit; an
\* order whose quantity equals maxPosition is admitted.
LargerLimits ==
    {m.maxPosition : m \in LimitsValues} \cup {Num(QtyMax + 1), PInf}

C18_IsSafeMonotone ==
    last.called =>
        /\ last.safe =>
               \A o \in Order :
                   DLe(o.quantity, last.order.quantity)
                   => isSafe(o, limits.maxPosition)
        /\ last.safe =>
               \A m \in LargerLimits :
                   DLe(limits.maxPosition, m) => isSafe(last.order, m)
        /\ (last.order.quantity = limits.maxPosition) => last.safe

\* C18 witness: an admitted order whose quantity equals maxPosition.
C18_Witness ==
    last.called /\ last.safe /\ last.order.quantity = limits.maxPosition

\* C19: main() returns, with exit code 0, an engine that is built and
\* Running, and it never enters the loop of that engine.
C19_MainState ==
    /\ ~mainEngine.loopEntered
    /\ mainEngine.built => mainEngine.running
    /\ (mainPc = "returned") => (exitCode = <<0>> /\ mainEngine = Built)

C19_MainTerminates == <>(mainPc = "returned") /\ []C19_MainState

\* C19 witness: main() has returned 0.
C19_Witness == mainPc = "returned" /\ exitCode = <<0>> /\ mainEngine.built

====
